---- MODULE Spec2Model ----
(***************************************************************************)
(* Model of django_backend/api/yf_fetch.py: the functions that reshape the *)
(* provider's (yfinance) results into JSON-serializable structures.        *)
(*                                                                         *)
(* Python values are tagged records (field t is the Python type).  A str   *)
(* is a sequence of text pieces: a literal of the source or of the         *)
(* provider is one piece, a rendered text (strftime, isoformat, str(int))  *)
(* is one piece per character, so that its format can be inspected.        *)
(* The provider's result of every call is an input, drawn from the bounded *)
(* sets below.  One request is served at a time: a call is made from the   *)
(* idle state, its result is observed, and Return goes back to idle.       *)
(***************************************************************************)
EXTENDS Integers, Sequences, FiniteSets, TLC

VARIABLES
    pc,             \* "idle" | "analysis" (inside get_analysis_data_as_json) | "done"
    call,           \* name of the function being / last called
    ticker_symbol,  \* its ticker_symbol argument
    provider,       \* what yf.Ticker(ticker_symbol).<attribute> gave to the call
    idx,            \* get_analysis_data_as_json: sub-reports evaluated so far
    absent,         \* get_analysis_data_as_json: sub-report keys the provider gave None for
    analysis_data,  \* get_analysis_data_as_json: the dict literal built so far
    caught,         \* get_analysis_data_as_json: the exception its except clause caught
    ret             \* the call's outcome: [kind |-> "return", value |-> v] or
                    \* [kind |-> "raise", exc |-> type name]; NoOutcome before

vars == <<pc, call, ticker_symbol, provider, idx, absent, analysis_data, caught, ret>>

---------------------------------------------------------------------------
(* Bounds of the model. *)

\* a provider table (balance sheet, cash flow) has at most MaxCells cells
MaxCells == 4
\* a price history has at most MaxRows rows
MaxRows == 2
\* a news result has at most MaxNews items
MaxNews == 2
\* a calendar has at most MaxCalKeys entries
MaxCalKeys == 2
\* the provider has data for at most MaxPresent of the analysis sub-reports
\* of one call (it gives None for the others)
MaxPresent == 2

---------------------------------------------------------------------------
(* Python values. *)

PyNone == [t |-> "NoneType"]
NaN == [t |-> "float", f |-> "nan"]
PosInf == [t |-> "float", f |-> "inf"]
NegInf == [t |-> "float", f |-> "-inf"]
NaT == [t |-> "NaTType"]
Num(n) == [t |-> "int", n |-> n]
Bool(b) == [t |-> "bool", b |-> b]
Str(pieces) == [t |-> "str", s |-> pieces]
Lit(text) == Str(<<text>>)
\* datetime.datetime / pandas.Timestamp (naive)
Timestamp(y, mo, d, h, mi, sec, us) ==
    [t |-> "Timestamp", y |-> y, mo |-> mo, d |-> d, h |-> h, mi |-> mi, sec |-> sec, us |-> us]
\* datetime.date that is not a datetime
Date(y, mo, d) == [t |-> "date", y |-> y, mo |-> mo, d |-> d]
List(items) == [t |-> "list", items |-> items]
Dict(d) == [t |-> "dict", d |-> d]
EmptyDict == Dict(<<>>)
\* a pandas DataFrame whose columns are keyed by label: cells[c][r] is the
\* cell of column c and row r (balance sheet, cash flow, analysis reports)
TableFrame(cells) == [t |-> "DataFrame", cells |-> cells]
\* a pandas DataFrame of price history: index holds the index values (its name
\* is "Date"), index_dtype their dtype, data[i] the other columns of row i
HistoryFrame(index_dtype, index, data) ==
    [t |-> "DataFrame", index_dtype |-> index_dtype, index |-> index, data |-> data]

\* the str that json.dumps returns: JSON text, holding the encoded value
JsonText(v) == [t |-> "str", json |-> v]

Return(v) == [kind |-> "return", value |-> v]
Raise(exc) == [kind |-> "raise", exc |-> exc]
\* an exception whose str(e) is msg
RaiseMsg(exc, msg) == [kind |-> "raise", exc |-> exc, msg |-> msg]
NoOutcome == [kind |-> "none"]

\* isinstance(v, (datetime, pd.Timestamp)): NaTType subclasses datetime
IsDatetime(v) == v.t \in {"Timestamp", "NaTType"}
\* isinstance(v, date): datetime subclasses date
IsDateInstance(v) == v.t \in {"date", "Timestamp", "NaTType"}

---------------------------------------------------------------------------
(* Text rendering. *)

DigitChars == <<"0", "1", "2", "3", "4", "5", "6", "7", "8", "9">>
Digit(n) == DigitChars[n + 1]

Pad2(n) == <<Digit((n \div 10) % 10), Digit(n % 10)>>
Pad4(n) == Pad2(n \div 100) \o Pad2(n % 100)
Pad6(n) == Pad2(n \div 10000) \o Pad4(n % 10000)

RECURSIVE Decimal(_)
\* str(n) of a non-negative int
Decimal(n) == IF n < 10 THEN <<Digit(n)>> ELSE Decimal(n \div 10) \o <<Digit(n % 10)>>

YMD(v) == Pad4(v.y) \o <<"-">> \o Pad2(v.mo) \o <<"-">> \o Pad2(v.d)
HMS(v) == Pad2(v.h) \o <<":">> \o Pad2(v.mi) \o <<":">> \o Pad2(v.sec)
Fraction(v) == IF v.us = 0 THEN <<>> ELSE <<".">> \o Pad6(v.us)

\* strftime with the ISO-8601 separator, as isoformat() would write it
strftime_iso(v) ==
    IF v.t = "NaTType" THEN Raise("ValueError")
    ELSE Return(Str(YMD(v) \o <<"T">> \o HMS(v)))

\* timestamp.strftime("%Y-%m-%d %H:%M:%S"); NaTType.strftime raises ValueError
strftime(v) ==
    IF v.t = "NaTType" THEN Raise("ValueError")
    ELSE Return(Str(YMD(v) \o <<" ">> \o HMS(v)))

\* obj.isoformat() of a date, a datetime / Timestamp, or NaT
isoformat(v) ==
    CASE v.t = "date" -> Str(YMD(v))
      [] v.t = "Timestamp" -> Str(YMD(v) \o <<"T">> \o HMS(v) \o Fraction(v))
      [] OTHER -> Lit("NaT")

\* the text of repr(v) of a container; its characters are not modelled
ReprText(v) == [t |-> "str", repr |-> v]

\* str(v)
PyStr(v) ==
    CASE v.t = "str" -> v
      [] v.t = "int" -> Str(Decimal(v.n))
      [] v.t = "Timestamp" -> Str(YMD(v) \o <<" ">> \o HMS(v) \o Fraction(v))
      [] v.t = "date" -> Str(YMD(v))
      [] v.t = "NaTType" -> Lit("NaT")
      [] v.t = "NoneType" -> Lit("None")
      [] v.t = "float" -> Lit(v.f)
      [] v.t = "bool" -> Lit(IF v.b THEN "True" ELSE "False")
      [] OTHER -> ReprText(v)

\* convert_timestamp_to_string(timestamp): an outcome, since strftime can raise
convert_timestamp_to_string(timestamp) ==
    IF IsDatetime(timestamp) THEN strftime(timestamp) ELSE Return(PyStr(timestamp))

---------------------------------------------------------------------------
(* json.dumps / json.loads. *)

\* the types json.dumps accepts as dict keys
IsJsonKey(k) == k.t \in {"str", "int", "float", "bool", "NoneType"}
\* the key json.dumps writes for k (an int key is written as its digits)
JsonKey(k) ==
    CASE k.t = "bool" -> Lit(IF k.b THEN "true" ELSE "false")
      [] k.t = "NoneType" -> Lit("null")
      [] OTHER -> PyStr(k)

\* a default that renders every date with the date-time format
DateEncoderDefaultAsDatetime(obj) ==
    IF IsDateInstance(obj)
    THEN Return(Str(YMD(obj) \o <<" ">> \o
            (IF obj.t = "Timestamp" THEN HMS(obj)
             ELSE <<"0", "0", ":", "0", "0", ":", "0", "0">>)))
    ELSE Raise("TypeError")

\* DateEncoder.default(obj): called by json.dumps for a value it cannot encode;
\* super().default raises TypeError
DateEncoderDefault(obj) ==
    IF IsDateInstance(obj) THEN Return(isoformat(obj)) ELSE Raise("TypeError")

\* json.JSONEncoder.default(obj), used when no cls is given
JSONEncoderDefault(obj) == Raise("TypeError")

EncoderDefault(cls, obj) ==
    IF cls = "DateEncoder" THEN DateEncoderDefault(obj) ELSE JSONEncoderDefault(obj)

RECURSIVE Encodable(_, _)
\* whether json.dumps(v, cls=cls) returns (rather than raising TypeError)
Encodable(v, cls) ==
    CASE v.t \in {"NoneType", "float", "int", "bool", "str"} -> TRUE
      [] v.t = "list" -> \A i \in 1..Len(v.items) : Encodable(v.items[i], cls)
      [] v.t = "dict" ->
            \A k \in DOMAIN v.d : IsJsonKey(k) /\ Encodable(v.d[k], cls)
      [] OTHER -> EncoderDefault(cls, v).kind = "return"

RECURSIVE Encode(_, _)
\* the value that the JSON text written by json.dumps(v, cls=cls) denotes
Encode(v, cls) ==
    CASE v.t \in {"NoneType", "float", "int", "bool", "str"} -> v
      [] v.t = "list" -> List([i \in 1..Len(v.items) |-> Encode(v.items[i], cls)])
      [] v.t = "dict" ->
            Dict([j \in {JsonKey(k) : k \in DOMAIN v.d} |->
                    Encode(v.d[CHOOSE k \in DOMAIN v.d : JsonKey(k) = j], cls)])
      [] OTHER -> EncoderDefault(cls, v).value

\* json.dumps(v, cls=cls)
json_dumps(v, cls) ==
    IF Encodable(v, cls) THEN Return(JsonText(Encode(v, cls))) ELSE Raise("TypeError")

\* json.loads(text)
json_loads(text) == text.json

\* json.loads(json.dumps(v, cls=cls))
json_roundtrip(v, cls) ==
    LET text == json_dumps(v, cls)
    IN  IF text.kind = "raise" THEN text ELSE Return(json_loads(text.value))

---------------------------------------------------------------------------
(* Main functions.  Each takes what the provider gave and yields the      *)
(* call's outcome.                                                         *)

\* pd.isna(v) of a scalar
pd_isna(v) == v.t \in {"NoneType", "NaTType"} \/ (v.t = "float" /\ v.f = "nan")

\* sub_value in [float('inf'), float('-inf')]
InInfList(v) == v.t = "float" /\ v.f \in {"inf", "-inf"}

\* the cleaning with float('-inf') left out of the list
CleanValueOnlyPosInf(sub_value) ==
    IF pd_isna(sub_value) \/ (sub_value.t = "float" /\ sub_value.f = "inf")
    THEN PyNone ELSE sub_value

\* None if pd.isna(sub_value) or sub_value in [inf, -inf] else sub_value
CleanValue(sub_value) ==
    IF pd_isna(sub_value) \/ InInfList(sub_value) THEN PyNone ELSE sub_value

\* frame.to_dict(): {column label: {row label: cell}}
to_dict(frame) == Dict([c \in DOMAIN frame.cells |-> Dict(frame.cells[c])])

\* the comprehension with key in the place of str(key)
CleanTableRawKeys(table) ==
    Dict([key \in DOMAIN table.d |->
            Dict([sub_key \in DOMAIN table.d[key].d |-> CleanValue(table.d[key].d[sub_key])])])

\* the dict comprehension {str(key): {sub_key: clean(sub_value) ...} ...}
CleanTable(table) ==
    Dict([j \in {PyStr(key) : key \in DOMAIN table.d} |->
            LET key == CHOOSE k \in DOMAIN table.d : PyStr(k) = j
                value == table.d[key]
            IN  Dict([sub_key \in DOMAIN value.d |-> CleanValue(value.d[sub_key])])])

\* get_balance_sheet_as_json, given yf.Ticker(ticker_symbol).balance_sheet
get_balance_sheet_as_json(bs) ==
    IF bs.t # "DataFrame" THEN Raise("AttributeError")   \* bs.to_dict()
    ELSE Return(CleanTable(to_dict(bs)))

\* get_cash_flow_as_json, given yf.Ticker(ticker_symbol).cashflow
get_cash_flow_as_json(cf) ==
    IF cf.t # "DataFrame" THEN Raise("AttributeError")   \* cf.to_dict()
    ELSE Return(CleanTable(to_dict(cf)))

\* the name reset_index() gives the column made of the index
IndexColumn == Lit("Date")

\* historical_data.reset_index(): row i as {column: value}, the index a column
reset_index(frame) ==
    [i \in 1..Len(frame.index) |->
        [c \in {IndexColumn} \cup DOMAIN frame.data[i] |->
            IF c = IndexColumn THEN frame.index[i] ELSE frame.data[i][c]]]

\* pd.api.types.is_datetime64_any_dtype(historical_data[col])
is_datetime64_any_dtype(frame, col) ==
    col = IndexColumn /\ frame.index_dtype = "datetime64"

\* the loop over the columns: every datetime64 column through
\* convert_timestamp_to_string; an outcome, since the conversion can raise
ConvertColumns(frame) ==
    LET rows == reset_index(frame)
        conv(i, c) == convert_timestamp_to_string(rows[i][c])
        cols(i) == {c \in DOMAIN rows[i] : is_datetime64_any_dtype(frame, c)}
    IN  IF \E i \in 1..Len(rows) : \E c \in cols(i) : conv(i, c).kind = "raise"
        THEN Raise("ValueError")
        ELSE Return([i \in 1..Len(rows) |->
                [c \in DOMAIN rows[i] |->
                    IF c \in cols(i) THEN conv(i, c).value ELSE rows[i][c]]])

\* the records in reverse order
to_dict_records_reversed(rows) ==
    List([i \in 1..Len(rows) |-> Dict(rows[Len(rows) + 1 - i])])

\* historical_data.to_dict(orient="records")
to_dict_records(rows) == List([i \in 1..Len(rows) |-> Dict(rows[i])])

\* get_historical_data_as_json, given yf.Ticker(ticker_symbol).history(**kwargs)
get_historical_data_as_json(historical_data) ==
    IF historical_data.t = "DataFrame"
    THEN IF ConvertColumns(historical_data).kind = "raise"
         THEN ConvertColumns(historical_data)
         ELSE json_roundtrip(to_dict_records(ConvertColumns(historical_data).value), "JSONEncoder")
    ELSE json_roundtrip(historical_data, "JSONEncoder")

\* info.get(key): the default left out
dict_get_no_default(info, key, default) ==
    IF key \in DOMAIN info.d THEN info.d[key] ELSE PyNone

\* info.get(key, default)
dict_get(info, key, default) == IF key \in DOMAIN info.d THEN info.d[key] ELSE default

\* get_sector_and_industry_as_json, given yf.Ticker(ticker_symbol).info
get_sector_and_industry_as_json(info) ==
    Return(Dict((Lit("sector") :> dict_get(info, Lit("sector"), Lit("N/A"))) @@
                (Lit("industry") :> dict_get(info, Lit("industry"), Lit("N/A")))))

\* get_cal_as_json without its test for None
get_cal_as_json_unchecked(cal) == json_roundtrip(cal, "DateEncoder")

\* get_cal_as_json, given yf.Ticker(ticker_symbol).calendar
get_cal_as_json(cal) ==
    IF cal = PyNone
    THEN json_dumps(Dict(Lit("error") :> Lit("No calendar data available")), "JSONEncoder")
    ELSE json_roundtrip(cal, "DateEncoder")

\* get_news_as_json, given yf.Ticker(ticker_symbol).news
get_news_as_json(news) ==
    IF news = PyNone
    THEN json_dumps(Dict(Lit("error") :> Lit("No calendar data available")), "JSONEncoder")
    ELSE json_roundtrip(news, "DateEncoder")

\* get_company_profile, given yf.Ticker(ticker_symbol).info
get_company_profile(info) == Return(info)

---------------------------------------------------------------------------
(* get_analysis_data_as_json: the sub-reports of the dict literal, in the  *)
(* order Python evaluates them.  shape is "frame" where the code calls     *)
(* .to_dict().items() on the attribute and "dict" where it calls .items(). *)
(* The string of the else branch is "No " name " data available".          *)

Reports == <<
    [key |-> "earnings_estimate", shape |-> "frame", name |-> "earnings estimate"],
    [key |-> "revenue_estimate", shape |-> "frame", name |-> "revenue estimate"],
    [key |-> "earnings_history", shape |-> "frame", name |-> "earnings history"],
    [key |-> "eps_trend", shape |-> "frame", name |-> "EPS trend"],
    [key |-> "eps_revisions", shape |-> "frame", name |-> "EPS revisions"],
    [key |-> "growth_estimates", shape |-> "frame", name |-> "growth estimate"],
    [key |-> "recommendations", shape |-> "frame", name |-> "recommendations"],
    [key |-> "recommendations_summary", shape |-> "frame", name |-> "recommendations summary"],
    [key |-> "upgrades_downgrades", shape |-> "frame", name |-> "upgrades/downgrades"],
    [key |-> "sustainability", shape |-> "frame", name |-> "sustainability"],
    [key |-> "analyst_price_targets", shape |-> "dict", name |-> "analyst price targets"],
    [key |-> "insider-purchases", shape |-> "frame", name |-> "insider purchases"],
    [key |-> "insider_transactions", shape |-> "frame", name |-> "insider transactions"],
    [key |-> "insider_roster_holders", shape |-> "frame", name |-> "insider roast holders"],
    [key |-> "major_holders", shape |-> "frame", name |-> "major holders"],
    [key |-> "institutional_holders", shape |-> "frame", name |-> "institutional holders"],
    [key |-> "mutualfund_holders", shape |-> "frame", name |-> "mutual fund holders"]
>>

\* the string literal of a sub-report's else branch, in three pieces
Message(report) == Str(<<"No ", report.name, " data available">>)

\* {str(key): convert_timestamp_to_string(value) for key, value in items}
\* for the items of the dict d; an outcome, since the conversion can raise
ConvertItems(d) ==
    IF \E k \in DOMAIN d.d : convert_timestamp_to_string(d.d[k]).kind = "raise"
    THEN RaiseMsg("ValueError", "NaTType does not support strftime")
    ELSE Return(Dict([j \in {PyStr(k) : k \in DOMAIN d.d} |->
            convert_timestamp_to_string(d.d[CHOOSE k \in DOMAIN d.d : PyStr(k) = j]).value]))

\* the conditional expression with None in the place of the string
SubReportEntryNull(report, value) ==
    IF value.t = "NoneType" THEN Return(PyNone)
    ELSE IF report.shape = "frame"
    THEN IF value.t = "DataFrame" THEN ConvertItems(to_dict(value))
         ELSE RaiseMsg("AttributeError", "'dict' object has no attribute 'to_dict'")
    ELSE ConvertItems(value)

\* one entry of the dict literal: the conditional expression for a sub-report,
\* given the value of the attribute
SubReportEntry(report, value) ==
    IF value.t = "NoneType" THEN Return(Message(report))
    ELSE IF report.shape = "frame"
    THEN IF value.t = "DataFrame" THEN ConvertItems(to_dict(value))
         ELSE RaiseMsg("AttributeError", "'dict' object has no attribute 'to_dict'")
    ELSE ConvertItems(value)

\* an except clause that keeps the entries built before the failure
ErrorResultKeepingPartial(ticker, e) ==
    Dict(Lit(ticker) :> Dict((Lit("error") :> Lit(e.msg)) @@ analysis_data))

\* the except clause: result[ticker_symbol] = {"error": str(e)}
ErrorResult(ticker, e) == Dict(Lit(ticker) :> Dict(Lit("error") :> Lit(e.msg)))

\* the last statement of the try block:
\* result[ticker_symbol] = <what json.loads(json.dumps(analysis_data, ...)) gave>
AnalysisResult(ticker, loaded) == Dict(Lit(ticker) :> loaded)

---------------------------------------------------------------------------
(* What the provider can give: the inputs of the calls.                    *)

Tickers == {"AAPL", "MSFT"}

\* column (period) labels and row labels of a provider table; no two labels
\* of a pool have the same str()
ColLabels == {Timestamp(2023, 9, 30, 0, 0, 0, 0), Num(2022), Lit("TTM")}
RowLabels == {Lit("Total Assets"), Num(3), Timestamp(2024, 1, 5, 0, 0, 0, 0)}

CellValues ==
    {PyNone, NaN, NaT, PosInf, NegInf, Num(5), Lit("USD"), Timestamp(2024, 1, 5, 9, 30, 0, 0)}

\* the rectangular tables of at most MaxCells cells
TableFrames ==
    {TableFrame(cells) : cells \in UNION {[C -> [R -> CellValues]] :
        <<C, R>> \in {p \in (SUBSET ColLabels) \X (SUBSET RowLabels) :
                        Cardinality(p[1]) * Cardinality(p[2]) <= MaxCells}}}

IndexValues ==
    {Timestamp(2024, 1, 5, 0, 0, 0, 0), Timestamp(2024, 11, 26, 9, 30, 7, 0),
     Timestamp(1999, 12, 31, 23, 59, 59, 250000), NaT}

HistoryRows == {Lit("Close") :> v : v \in {Num(5), NaN}}

HistoryFrames ==
    UNION {{HistoryFrame(dt, ix, da) :
                dt \in {"datetime64", "object"},
                ix \in [1..n -> IndexValues],
                da \in [1..n -> HistoryRows]} : n \in 0..MaxRows}

InfoKeys == {Lit("sector"), Lit("industry"), Lit("longName")}
InfoValues == {Lit("Technology"), PyNone}
Infos == {Dict(d) : d \in UNION {[K -> InfoValues] : K \in SUBSET InfoKeys}}

CalKeys == {Lit("Earnings Date"), Lit("Ex-Dividend Date"), Lit("Revenue Average")}
CalValues ==
    {Date(2024, 2, 1), Date(2024, 11, 15), Timestamp(2024, 2, 1, 16, 30, 0, 0), Num(5),
     List(<<Date(2024, 2, 1), Date(2024, 11, 15)>>), Lit("estimate")}
Calendars ==
    {Dict(d) : d \in UNION {[K -> CalValues] :
        K \in {K \in SUBSET CalKeys : Cardinality(K) <= MaxCalKeys}}}

NewsItems ==
    {Dict((Lit("title") :> title) @@ (Lit("providerPublishTime") :> time)) :
        title \in {Lit("Earnings beat"), Lit("Recall")},
        time \in {Num(17), Date(2024, 2, 1)}}
NewsLists == UNION {{List(items) : items \in [1..n -> NewsItems]} : n \in 0..MaxNews}

\* what an attribute of a sub-report can be: None, a frame (with data or
\* empty) or, for the price targets, a dict (with data or empty); a dict where
\* the code expects a frame has no to_dict
SampleFrame ==
    TableFrame(Lit("avg") :> ((Lit("0q") :> Num(5)) @@ (Lit("+1q") :> NaN)))
EmptyFrame == TableFrame(<<>>)
SampleTargets == Dict((Lit("current") :> Num(5)) @@ (Lit("mean") :> Num(7)))
SubReportValues(report) ==
    IF report.shape = "frame"
    THEN {PyNone, SampleFrame, EmptyFrame, SampleTargets}
    ELSE {PyNone, SampleTargets, EmptyDict}

\* str(e) of the failures of the provider
FailureMessages == {"HTTP Error 404", "Too Many Requests"}

---------------------------------------------------------------------------
(* The state machine. *)

Init ==
    /\ pc = "idle"
    /\ call = "none"
    /\ ticker_symbol = "none"
    /\ provider = PyNone
    /\ idx = 0
    /\ absent = {}
    /\ analysis_data = <<>>
    /\ caught = NoOutcome
    /\ ret = NoOutcome

\* a call that is served in one step: the provider gave given, the call ends with outcome
Serve(name, ticker, given, outcome) ==
    /\ pc' = "done"
    /\ call' = name
    /\ ticker_symbol' = ticker
    /\ provider' = given
    /\ ret' = outcome
    /\ UNCHANGED <<idx, absent, analysis_data, caught>>

BalanceSheet ==
    /\ pc = "idle"
    /\ \E ticker \in Tickers, bs \in TableFrames \cup {PyNone} :
           Serve("get_balance_sheet_as_json", ticker, bs, get_balance_sheet_as_json(bs))

CashFlow ==
    /\ pc = "idle"
    /\ \E ticker \in Tickers, cf \in TableFrames \cup {PyNone} :
           Serve("get_cash_flow_as_json", ticker, cf, get_cash_flow_as_json(cf))

HistoricalData ==
    /\ pc = "idle"
    /\ \E ticker \in Tickers, historical_data \in HistoryFrames \cup {PyNone} :
           Serve("get_historical_data_as_json", ticker, historical_data,
                 get_historical_data_as_json(historical_data))

SectorAndIndustry ==
    /\ pc = "idle"
    /\ \E ticker \in Tickers, info \in Infos :
           Serve("get_sector_and_industry_as_json", ticker, info,
                 get_sector_and_industry_as_json(info))

Cal ==
    /\ pc = "idle"
    /\ \E ticker \in Tickers, cal \in Calendars \cup {PyNone} :
           Serve("get_cal_as_json", ticker, cal, get_cal_as_json(cal))

News ==
    /\ pc = "idle"
    /\ \E ticker \in Tickers, news \in NewsLists \cup {PyNone} :
           Serve("get_news_as_json", ticker, news, get_news_as_json(news))

CompanyProfile ==
    /\ pc = "idle"
    /\ \E ticker \in Tickers, info \in Infos :
           Serve("get_company_profile", ticker, info, get_company_profile(info))

\* get_analysis_data_as_json enters its try block: data = yf.Ticker(ticker_symbol)
AnalysisBegin ==
    /\ pc = "idle"
    /\ \E ticker \in Tickers :
        /\ pc' = "analysis"
        /\ call' = "get_analysis_data_as_json"
        /\ ticker_symbol' = ticker
        /\ UNCHANGED <<provider, idx, absent, analysis_data, caught, ret>>

\* the next entry of the dict literal is evaluated: the attribute is None or
\* a value, and the entry is stored or its conversion raises into the except clause
AnalysisEntry ==
    /\ pc = "analysis"
    /\ idx < Len(Reports)
    /\ LET report == Reports[idx + 1] IN
       \E value \in SubReportValues(report) :
        LET entry == SubReportEntry(report, value) IN
        /\ value # PyNone => idx - Cardinality(absent) < MaxPresent
        /\ provider' = value
        /\ idx' = idx + 1
        /\ IF entry.kind = "raise"
           THEN /\ pc' = "done"
                /\ caught' = entry
                /\ ret' = Return(ErrorResult(ticker_symbol, entry))
                /\ UNCHANGED <<absent, analysis_data>>
           ELSE /\ analysis_data' = analysis_data @@ (Lit(report.key) :> entry.value)
                /\ absent' = IF value = PyNone THEN absent \cup {report.key} ELSE absent
                /\ UNCHANGED <<pc, caught, ret>>
    /\ UNCHANGED <<call, ticker_symbol>>

\* reading the next attribute fails in the provider: the except clause and
\* the return (yf.Ticker itself failing is the case idx = 0)
AnalysisFailure ==
    /\ pc = "analysis"
    /\ idx < Len(Reports)
    /\ \E msg \in FailureMessages :
        /\ pc' = "done"
        /\ caught' = RaiseMsg("Exception", msg)
        /\ ret' = Return(ErrorResult(ticker_symbol, RaiseMsg("Exception", msg)))
    /\ UNCHANGED <<call, ticker_symbol, provider, idx, absent, analysis_data>>

\* every entry is evaluated: the result is serialized and returned
AnalysisEnd ==
    /\ pc = "analysis"
    /\ idx = Len(Reports)
    /\ pc' = "done"
    /\ LET loaded == json_roundtrip(Dict(analysis_data), "DateEncoder") IN
       IF loaded.kind = "raise"
       THEN /\ caught' = RaiseMsg(loaded.exc, "Object is not JSON serializable")
            /\ ret' = Return(ErrorResult(ticker_symbol, caught'))
       ELSE /\ ret' = Return(AnalysisResult(ticker_symbol, loaded.value))
            /\ UNCHANGED caught
    /\ UNCHANGED <<call, ticker_symbol, provider, idx, absent, analysis_data>>

\* the caller has the outcome; nothing of the call is kept
Finish ==
    /\ pc = "done"
    /\ pc' = "idle"
    /\ call' = "none"
    /\ ticker_symbol' = "none"
    /\ provider' = PyNone
    /\ idx' = 0
    /\ absent' = {}
    /\ analysis_data' = <<>>
    /\ caught' = NoOutcome
    /\ ret' = NoOutcome

Next ==
    \/ BalanceSheet
    \/ CashFlow
    \/ HistoricalData
    \/ SectorAndIndustry
    \/ Cal
    \/ News
    \/ CompanyProfile
    \/ AnalysisBegin
    \/ AnalysisEntry
    \/ AnalysisFailure
    \/ AnalysisEnd
    \/ Finish

Spec == Init /\ [][Next]_vars

---------------------------------------------------------------------------
(* Properties.  The texts a property expects are described here from the   *)
(* formats the specification names, not by the rendering operators.        *)

TableCalls == {"get_balance_sheet_as_json", "get_cash_flow_as_json"}

\* a table call has ended, the provider having given a frame
TableServed == pc = "done" /\ call \in TableCalls /\ provider.t = "DataFrame"

\* the digit a digit character denotes
DigitOf == [c \in {DigitChars[n + 1] : n \in 0..9} |-> CHOOSE n \in 0..9 : DigitChars[n + 1] = c]

\* the number a sequence of digit characters denotes
RECURSIVE DigitsValue(_)
DigitsValue(s) ==
    IF s = <<>> THEN 0
    ELSE 10 * DigitsValue(SubSeq(s, 1, Len(s) - 1)) + DigitOf[s[Len(s)]]

AllDigits(s) == \A i \in 1..Len(s) : s[i] \in DOMAIN DigitOf

\* s is YYYY-MM-DD and denotes the calendar date of v
IsDateTextOf(s, v) ==
    /\ Len(s) = 10
    /\ s[5] = "-" /\ s[8] = "-"
    /\ AllDigits(SubSeq(s, 1, 4)) /\ DigitsValue(SubSeq(s, 1, 4)) = v.y
    /\ AllDigits(SubSeq(s, 6, 7)) /\ DigitsValue(SubSeq(s, 6, 7)) = v.mo
    /\ AllDigits(SubSeq(s, 9, 10)) /\ DigitsValue(SubSeq(s, 9, 10)) = v.d

\* s is HH:MM:SS and denotes the time of day of v
IsTimeTextOf(s, v) ==
    /\ Len(s) = 8
    /\ s[3] = ":" /\ s[6] = ":"
    /\ AllDigits(SubSeq(s, 1, 2)) /\ DigitsValue(SubSeq(s, 1, 2)) = v.h
    /\ AllDigits(SubSeq(s, 4, 5)) /\ DigitsValue(SubSeq(s, 4, 5)) = v.mi
    /\ AllDigits(SubSeq(s, 7, 8)) /\ DigitsValue(SubSeq(s, 7, 8)) = v.sec

\* o is the str YYYY-MM-DD HH:MM:SS of the date/time v
IsDateTimeStringOf(o, v) ==
    /\ o.t = "str" /\ "s" \in DOMAIN o
    /\ Len(o.s) = 19
    /\ IsDateTextOf(SubSeq(o.s, 1, 10), v)
    /\ o.s[11] = " "
    /\ IsTimeTextOf(SubSeq(o.s, 12, 19), v)

\* o is the str YYYY-MM-DD of the date v
IsDateStringOf(o, v) ==
    o.t = "str" /\ "s" \in DOMAIN o /\ IsDateTextOf(o.s, v)

\* o is a str that starts YYYY-MM-DDTHH:MM:SS, the ISO-8601 form of the datetime v
IsIsoDateTimeStringOf(o, v) ==
    /\ o.t = "str" /\ "s" \in DOMAIN o
    /\ Len(o.s) >= 19
    /\ IsDateTextOf(SubSeq(o.s, 1, 10), v)
    /\ o.s[11] = "T"
    /\ IsTimeTextOf(SubSeq(o.s, 12, 19), v)

\* a missing or non-finite scalar: None, NaN, NaT, +Infinity, -Infinity
IsMissingOrNonFinite(v) ==
    v.t \in {"NoneType", "NaTType"} \/ (v.t = "float" /\ v.f \in {"nan", "inf", "-inf"})

\* the output cell of the provider's cell (c, r): under the string form of c, at r
OutputCell(c, r) == ret.value.d[PyStr(c)].d[r]

(* C1: table normalization never raises on a cell value; a missing, NaN,   *)
(* +Infinity or -Infinity cell gives null, every other cell gives the      *)
(* input scalar.                                                           *)
C1_TableCellsCleaned ==
    TableServed =>
        /\ ret.kind = "return"
        /\ \A c \in DOMAIN provider.cells : \A r \in DOMAIN provider.cells[c] :
              OutputCell(c, r) =
                IF IsMissingOrNonFinite(provider.cells[c][r]) THEN PyNone
                ELSE provider.cells[c][r]

\* a table with a NaN, a -Infinity and an ordinary cell has been normalized
C1_Witness ==
    /\ TableServed
    /\ \E c1, c2, c3 \in DOMAIN provider.cells :
        \E r1 \in DOMAIN provider.cells[c1], r2 \in DOMAIN provider.cells[c2],
           r3 \in DOMAIN provider.cells[c3] :
            /\ provider.cells[c1][r1] = NaN /\ OutputCell(c1, r1) = PyNone
            /\ provider.cells[c2][r2] = NegInf /\ OutputCell(c2, r2) = PyNone
            /\ provider.cells[c3][r3] = Num(5) /\ OutputCell(c3, r3) = Num(5)

SectorKeys == {Lit("sector"), Lit("industry")}

(* C6: get_sector_and_industry_as_json returns a mapping with exactly the  *)
(* keys "sector" and "industry"; each holds the metadata's value when the  *)
(* field is present and "N/A" when it is absent.                           *)
C6_SectorAndIndustry ==
    (pc = "done" /\ call = "get_sector_and_industry_as_json") =>
        /\ ret.kind = "return"
        /\ ret.value.t = "dict"
        /\ DOMAIN ret.value.d = SectorKeys
        /\ \A k \in SectorKeys :
              ret.value.d[k] = IF k \in DOMAIN provider.d THEN provider.d[k] ELSE Lit("N/A")

\* metadata with a sector, another field and no industry has been served
C6_Witness ==
    /\ pc = "done" /\ call = "get_sector_and_industry_as_json"
    /\ DOMAIN provider.d = {Lit("sector"), Lit("longName")}
    /\ ret.value.d[Lit("industry")] = Lit("N/A")
    /\ ret.value.d[Lit("sector")] = provider.d[Lit("sector")]

AnalysisServed == pc = "done" /\ call = "get_analysis_data_as_json"

ReportKeys == {Lit(Reports[i].key) : i \in 1..Len(Reports)}

(* C2: if a failure occurs while get_analysis_data_as_json builds the      *)
(* bundle, at whichever sub-report, the call returns exactly               *)
(* {ticker: {"error": message of the failure}}: the ticker's entry has the *)
(* single key "error" and no sub-report key, and the call does not raise.  *)
C2_FailureCollapsesBundle ==
    (AnalysisServed /\ caught # NoOutcome) =>
        /\ ret.kind = "return"
        /\ ret.value.t = "dict"
        /\ DOMAIN ret.value.d = {Lit(ticker_symbol)}
        /\ ret.value.d[Lit(ticker_symbol)].t = "dict"
        /\ DOMAIN ret.value.d[Lit(ticker_symbol)].d = {Lit("error")}
        /\ DOMAIN ret.value.d[Lit(ticker_symbol)].d \cap ReportKeys = {}
        /\ ret.value.d[Lit(ticker_symbol)].d[Lit("error")] = Lit(caught.msg)

\* a failure after sub-reports were fetched, absent ones and present ones
C2_Witness ==
    /\ AnalysisServed
    /\ caught # NoOutcome
    /\ idx >= 3
    /\ absent # {}
    /\ \E k \in DOMAIN analysis_data : analysis_data[k].t = "dict"
    /\ Lit("error") \in DOMAIN ret.value.d[Lit(ticker_symbol)].d

\* the entry of the returned bundle for the ticker
Bundle == ret.value.d[Lit(ticker_symbol)]

\* the bundle has a key for every sub-report, and under the key of each
\* sub-report the provider gave None for, the string "No <name> data
\* available" with that sub-report's name, a name no other sub-report has
BundleNamesAbsentReports ==
    /\ ret.kind = "return"
    /\ ret.value.t = "dict"
    /\ DOMAIN ret.value.d = {Lit(ticker_symbol)}
    /\ Bundle.t = "dict"
    /\ DOMAIN Bundle.d = ReportKeys
    /\ Lit("error") \notin DOMAIN Bundle.d
    /\ \A i \in 1..Len(Reports) :
          Reports[i].key \in absent =>
            /\ Bundle.d[Lit(Reports[i].key)].t = "str"
            /\ Bundle.d[Lit(Reports[i].key)].s = <<"No ", Reports[i].name, " data available">>
            /\ \A j \in 1..Len(Reports) : Reports[j].name = Reports[i].name => j = i

NullCalls == {"get_cal_as_json", "get_news_as_json"}

(* C4: on a null calendar, get_cal_as_json returns without raising a       *)
(* mapping with the key "error" whose value is "No calendar data           *)
(* available"; get_news_as_json on a null news result returns the same.    *)
C4_AsStated ==
    (pc = "done" /\ call \in NullCalls /\ provider = PyNone) =>
        /\ ret.kind = "return"
        /\ ret.value.t = "dict"
        /\ Lit("error") \in DOMAIN ret.value.d
        /\ ret.value.d[Lit("error")] = Lit("No calendar data available")

\* the history call has returned for a provider frame
HistoryReturned ==
    /\ pc = "done" /\ call = "get_historical_data_as_json"
    /\ provider.t = "DataFrame"
    /\ ret.kind = "return"

(* C5: get_historical_data_as_json preserves the order of the records: for *)
(* a provider result of n rows the output is a list of n mappings, and the *)
(* i-th mapping is the normalization of the i-th row (its date rendered,   *)
(* its other fields as given).                                             *)
C5_RecordOrderPreserved ==
    HistoryReturned =>
        /\ ret.value.t = "list"
        /\ Len(ret.value.items) = Len(provider.index)
        /\ \A i \in 1..Len(provider.index) :
            /\ ret.value.items[i].t = "dict"
            /\ DOMAIN ret.value.items[i].d = {IndexColumn} \cup DOMAIN provider.data[i]
            /\ IsDateTimeStringOf(ret.value.items[i].d[IndexColumn], provider.index[i])
            /\ \A c \in DOMAIN provider.data[i] :
                  ret.value.items[i].d[c] = provider.data[i][c]

\* two rows that differ, the later date first, have been returned
C5_Witness ==
    /\ HistoryReturned
    /\ Len(provider.index) >= 2
    /\ provider.index[1] = Timestamp(2024, 11, 26, 9, 30, 7, 0)
    /\ provider.index[2] = Timestamp(1999, 12, 31, 23, 59, 59, 250000)
    /\ provider.data[1] # provider.data[2]
    /\ Len(ret.value.items) >= 2

\* o is the string form of the label c: c itself if a str, its digits if an
\* int, YYYY-MM-DD HH:MM:SS if a Timestamp (of whole seconds)
IsStringFormOf(o, c) ==
    CASE c.t = "str" -> o = c
      [] c.t = "int" ->
            o.t = "str" /\ "s" \in DOMAIN o /\ AllDigits(o.s) /\ DigitsValue(o.s) = c.n
      [] OTHER -> IsDateTimeStringOf(o, c)

\* every outer key of the output is a str, the string form of a source
\* column label, and every column label has its key
OuterKeysAreStringForms ==
    /\ ret.kind = "return"
    /\ ret.value.t = "dict"
    /\ \A j \in DOMAIN ret.value.d :
          j.t = "str" /\ \E c \in DOMAIN provider.cells : IsStringFormOf(j, c)
    /\ \A c \in DOMAIN provider.cells :
          \E j \in DOMAIN ret.value.d : IsStringFormOf(j, c)

HistoryServed ==
    pc = "done" /\ call = "get_historical_data_as_json" /\ provider.t = "DataFrame"

\* in the output of the history call every date/time of the index is
\* rendered as YYYY-MM-DD HH:MM:SS, and no value of a record is a date/time
HistoryDatesRendered ==
    HistoryReturned =>
        \A i \in 1..Len(provider.index) :
            /\ IsDateTimeStringOf(ret.value.items[i].d[IndexColumn], provider.index[i])
            /\ \A c \in DOMAIN ret.value.items[i].d :
                  ~IsDateInstance(ret.value.items[i].d[c])

StructureReturned == pc = "done" /\ call \in NullCalls /\ provider # PyNone

RECURSIVE DatesAsCalendarDates(_, _)
\* o is v with every date value (a plain date or a datetime) replaced by its
\* YYYY-MM-DD string and every other value unchanged
DatesAsCalendarDates(v, o) ==
    CASE IsDateInstance(v) -> IsDateStringOf(o, v)
      [] v.t = "list" ->
            /\ o.t = "list" /\ Len(o.items) = Len(v.items)
            /\ \A i \in 1..Len(v.items) : DatesAsCalendarDates(v.items[i], o.items[i])
      [] v.t = "dict" ->
            /\ o.t = "dict" /\ DOMAIN o.d = DOMAIN v.d
            /\ \A k \in DOMAIN v.d : DatesAsCalendarDates(v.d[k], o.d[k])
      [] OTHER -> o = v

RECURSIVE DatesAsIsoStrings(_, _)
\* o is v with every plain date replaced by its YYYY-MM-DD string, every
\* datetime by its YYYY-MM-DDTHH:MM:SS string and every other value unchanged
DatesAsIsoStrings(v, o) ==
    CASE v.t = "date" -> IsDateStringOf(o, v)
      [] v.t = "Timestamp" -> IsIsoDateTimeStringOf(o, v)
      [] v.t = "list" ->
            /\ o.t = "list" /\ Len(o.items) = Len(v.items)
            /\ \A i \in 1..Len(v.items) : DatesAsIsoStrings(v.items[i], o.items[i])
      [] v.t = "dict" ->
            /\ o.t = "dict" /\ DOMAIN o.d = DOMAIN v.d
            /\ \A k \in DOMAIN v.d : DatesAsIsoStrings(v.d[k], o.d[k])
      [] OTHER -> o = v

(* C9 as stated: on a calendar or news result that is not null the calls   *)
(* return the structure with any date value in it replaced by its          *)
(* YYYY-MM-DD string and every non-date value unchanged.                   *)
C9_AsStated ==
    StructureReturned =>
        ret.kind = "return" /\ DatesAsCalendarDates(provider, ret.value)

(* C9 as amended: the calls return the structure with every plain date     *)
(* replaced by its YYYY-MM-DD string, every datetime by its ISO-8601       *)
(* date-time string YYYY-MM-DDTHH:MM:SS, and every other value unchanged.  *)
C9_DatesIsoFormatted ==
    StructureReturned =>
        ret.kind = "return" /\ DatesAsIsoStrings(provider, ret.value)

\* a calendar with a date, a list of dates and a number was returned
C9_Witness ==
    /\ pc = "done" /\ call = "get_cal_as_json" /\ provider.t = "dict"
    /\ DOMAIN provider.d = {Lit("Earnings Date"), Lit("Revenue Average")}
    /\ provider.d[Lit("Earnings Date")] = List(<<Date(2024, 2, 1), Date(2024, 11, 15)>>)
    /\ provider.d[Lit("Revenue Average")] = Num(5)
    /\ ret.value.d[Lit("Earnings Date")].items[1].s =
            <<"2", "0", "2", "4", "-", "0", "2", "-", "0", "1">>
    /\ ret.value.d[Lit("Revenue Average")] = Num(5)

\* the provider's result is absent: null, or empty
IsAbsent(v) ==
    CASE v.t = "NoneType" -> TRUE
      [] v.t = "DataFrame" ->
            IF "cells" \in DOMAIN v
            THEN \A c \in DOMAIN v.cells : DOMAIN v.cells[c] = {}
            ELSE Len(v.index) = 0
      [] v.t = "dict" -> DOMAIN v.d = {}
      [] v.t = "list" -> Len(v.items) = 0
      [] OTHER -> FALSE

ServedCalls == TableCalls \cup NullCalls \cup {"get_historical_data_as_json"}

\* the entry of the sub-report evaluated last is in the dict literal
EntryStored ==
    /\ call = "get_analysis_data_as_json"
    /\ idx > 0
    /\ Lit(Reports[idx].key) \in DOMAIN analysis_data

\* the "No calendar data available" payload, as a mapping or as its JSON text
CarriesError(v) ==
    \/ v.t = "dict" /\ Lit("error") \in DOMAIN v.d
    \/ v.t = "str" /\ "json" \in DOMAIN v /\ v.json.t = "dict"
         /\ Lit("error") \in DOMAIN v.json.d

====
